---- MODULE Spec2Model ----
(***************************************************************************)
(* Model of src/server.py: the MCP tool dispatcher call_tool and the four  *)
(* tool handlers execute_sql, get_table_info, get_database_stats and       *)
(* benchmark_query, each stepping through its calls to the pymysql driver. *)
(*                                                                         *)
(* Invocations are numbered 1..MaxInvocations in delivery order.  Each is  *)
(* a coroutine run by the asyncio event loop; `running` is the invocation  *)
(* that holds the loop (0: none).  A handler gives the loop up only where  *)
(* Yields says so: the code calls the blocking pymysql driver and awaits   *)
(* nothing that suspends, so it never does.                                *)
(*                                                                         *)
(* Durations are integers in thousandths of a millisecond; the report's    *)
(* ":.2f" formatting (Fmt2) rounds them to hundredths.                     *)
(***************************************************************************)
EXTENDS Integers, Sequences, FiniteSets, TLC

\* ---------------------------------------------------------------- bounds
MaxInvocations == 2
MaxRows == 2
MaxSmallIter == 3
MaxOver == 2

\* ------------------------------------------------------ program constants
Cap == 50
DefaultIterations == 5
StatsStatements == 3

\* --------------------------------------------------------------- strings
\* A query is a sequence of one-character strings.
Lower == <<"a","b","c","d","e","f","g","h","i","j","k","l","m",
           "n","o","p","q","r","s","t","u","v","w","x","y","z">>
Capital == <<"A","B","C","D","E","F","G","H","I","J","K","L","M",
             "N","O","P","Q","R","S","T","U","V","W","X","Y","Z">>
Whitespace == {" ", "\n", "\t"}

UpperChar(c) ==
    IF \E k \in 1..Len(Lower) : Lower[k] = c
    THEN Capital[CHOOSE k \in 1..Len(Lower) : Lower[k] = c]
    ELSE c

\* str.upper()
Upper(s) == [k \in 1..Len(s) |-> UpperChar(s[k])]

RECURSIVE LStrip(_)
LStrip(s) == IF s # <<>> /\ Head(s) \in Whitespace THEN LStrip(Tail(s)) ELSE s

RECURSIVE RStrip(_)
RStrip(s) ==
    IF s # <<>> /\ s[Len(s)] \in Whitespace
    THEN RStrip(SubSeq(s, 1, Len(s) - 1))
    ELSE s

\* str.strip()
Strip(s) == RStrip(LStrip(s))

\* str.startswith(p)
StartsWith(s, p) == Len(s) >= Len(p) /\ SubSeq(s, 1, Len(p)) = p

Keywords == { <<"S","E","L","E","C","T">>,
              <<"S","H","O","W">>,
              <<"D","E","S","C","R","I","B","E">>,
              <<"E","X","P","L","A","I","N">> }

\* A classifier that forgets strip(): a faulty variant of IsProjection.
IsProjectionNoStrip(q) == \E p \in Keywords : StartsWith(Upper(q), p)

\* query.strip().upper().startswith(('SELECT', 'SHOW', 'DESCRIBE', 'EXPLAIN'))
IsProjection(q) == \E p \in Keywords : StartsWith(Upper(Strip(q)), p)

\* The queries the invocations draw from.
QSelectPadded == <<" "," ","s","e","l","e","c","t"," ","1","\n">>
QShow         == <<"S","h","o","w"," ","t">>
QDescribe     == <<"\t","d","e","s","c","r","i","b","e"," ","t">>
QExplain      == <<"E","X","P","L","A","I","N"," ","q">>
QSelected     == <<"s","e","l","e","c","t","e","d">>
QUpdate       == <<"U","P","D","A","T","E"," ","t">>
QCommentSel   == <<"-","-","c","\n","S","E","L","E","C","T"," ","1">>
QSelec        == <<" ","S","E","L","E","C">>
QEmpty        == <<>>

Queries == { QSelectPadded, QShow, QDescribe, QExplain, QSelected,
             QUpdate, QCommentSel, QSelec, QEmpty }

\* ------------------------------------------------------------ arithmetic
Min2(a, b) == IF a <= b THEN a ELSE b
Max2(a, b) == IF a >= b THEN a ELSE b

RECURSIVE Sum(_)
Sum(s) == IF s = <<>> THEN 0 ELSE Head(s) + Sum(Tail(s))

MinOf(s) == CHOOSE x \in { s[k] : k \in 1..Len(s) } :
                \A k \in 1..Len(s) : x <= s[k]
MaxOf(s) == CHOOSE x \in { s[k] : k \in 1..Len(s) } :
                \A k \in 1..Len(s) : x >= s[k]

\* f"{x:.2f}" of x = num/den thousandths of a millisecond: hundredths,
\* rounded to nearest.
Fmt2(num, den) == (2 * num + 10 * den) \div (20 * den)

\* ----------------------------------------------------------- environment
\* The latency of the database: the k-th timed statement on a connection
\* takes lat[((k - 1) % Len(lat)) + 1] thousandths of a millisecond.
Profiles == { <<12>>, <<3, 18, 7>>, <<26, 0, 0, 4>> }
Latency(lat, k) == lat[((k - 1) % Len(lat)) + 1]

Invs == 1..MaxInvocations

Known == {"execute_sql", "get_table_info", "get_database_stats", "benchmark_query"}
ToolNames == Known \cup {"list_tables"}

IterArgs == (-1..MaxSmallIter) \cup ((Cap - 1)..(Cap + MaxOver))

\* ------------------------------------------------------------------ text
Tok(k, v, s) == [k |-> k, v |-> v, s |-> s]
TextContent(text) == [type |-> "text", text |-> text]

VARIABLES
    inv,        \* inv[i]: the frame of invocation i (its arguments and locals)
    delivered,  \* how many invocations the transport has delivered
    ready,      \* the event loop's FIFO queue of runnable invocations
    running,    \* the invocation that holds the event loop, 0 when idle
    open,       \* the connection handles that are open
    nextConn,   \* the next fresh connection handle
    users,      \* <<h, i>>: invocation i has used connection handle h
    outbox      \* the invocations answered, in the order of their responses

vars == <<inv, delivered, ready, running, open, nextConn, users, outbox>>

NewFrame ==
    [ pc |-> "new", name |-> "", hasQuery |-> FALSE, query |-> <<>>,
      measure_time |-> FALSE, table_name |-> FALSE, tool |-> "",
      hasIter |-> FALSE, iterNumber |-> TRUE, arg |-> 0, iterations |-> 0,
      connection |-> 0, lat |-> <<>>, phase |-> "", runs |-> 0,
      connects |-> 0, executes |-> 0, fetches |-> 0, commits |-> 0,
      closes |-> 0, elapsed |-> 0, times |-> <<>>,
      raised |-> FALSE, driverFailed |-> FALSE, msg |-> "",
      result_text |-> <<>>, resp |-> <<>> ]

Init ==
    /\ inv = [i \in Invs |-> NewFrame]
    /\ delivered = 0
    /\ ready = <<>>
    /\ running = 0
    /\ open = {}
    /\ nextConn = 1
    /\ users = {}
    /\ outbox = <<>>

\* ------------------------------------------------------------ event loop
\* A driver call that would hand the loop to another task: a faulty variant of Yields.
YieldsOnIO(op) == op \in {"connect", "execute", "fetch", "commit"}

\* Whether the handler suspends at driver call op.  pymysql is a blocking
\* driver and the handlers await nothing else: never.
Yields(op) == FALSE

Keep(i, op) ==
    /\ running' = IF Yields(op) THEN 0 ELSE running
    /\ ready' = IF Yields(op) THEN Append(ready, i) ELSE ready

\* The transport delivers the next invocation: a task is made ready.
Deliver ==
    /\ delivered < MaxInvocations
    /\ delivered' = delivered + 1
    /\ inv' = [inv EXCEPT ![delivered + 1].pc = "pending"]
    /\ ready' = Append(ready, delivered + 1)
    /\ UNCHANGED <<running, open, nextConn, users, outbox>>

\* The idle event loop runs the first ready task.
Schedule(i) ==
    /\ running = 0
    /\ ready # <<>>
    /\ Head(ready) = i
    /\ running' = i
    /\ ready' = Tail(ready)
    /\ UNCHANGED <<inv, delivered, open, nextConn, users, outbox>>

\* ------------------------------------------------------------ exceptions
\* An error handler that returns what had been rendered so far next to the
\* error: a faulty variant of ErrorResponse.
ErrorResponseWithPartial(partial, m) ==
    <<TextContent(partial), TextContent(<<Tok("Error: ", 0, m)>>)>>

\* except Exception as e: return [TextContent(type="text", text=f"Error: {str(e)}")]
ErrorResponse(partial, m) == <<TextContent(<<Tok("Error: ", 0, m)>>)>>

\* An exception raised outside any try/finally of a handler: call_tool's
\* except clause answers.
Caught(r, m) ==
    [r EXCEPT !.pc = "done", !.raised = TRUE, !.msg = m,
              !.resp = ErrorResponse(r.result_text, m)]

\* An exception raised inside a handler's try block: its finally runs next.
Raise(r, m, driver) ==
    [r EXCEPT !.pc = "finally", !.raised = TRUE, !.msg = m,
              !.driverFailed = driver]

\* ------------------------------------------------------------- call_tool
\* A dispatcher whose else branch falls back to execute_sql: a faulty variant of Route.
RouteDefault(name) == IF name \in Known THEN name ELSE "execute_sql"

\* The if/elif chain of call_tool.
Route(name) == IF name \in Known THEN name ELSE "unknown"

\* No cap at all: a faulty variant of ClampIterations.
ClampNone(n) == n

\* if iterations > 50: iterations = 50
ClampIterations(n) == IF n > Cap THEN Cap ELSE n

\* One repetition too many: a faulty variant of TimedRuns.
TimedRunsOffByOne(n) == Max2(0, n + 1)

\* for i in range(iterations): the number of passes of the loop.
TimedRuns(n) == Max2(0, n)

Entered(r, name, hq, q, mt, tn, hi, num, a) ==
    [r EXCEPT !.name = name, !.tool = Route(name), !.hasQuery = hq, !.query = q,
              !.measure_time = mt, !.table_name = tn,
              !.hasIter = hi, !.iterNumber = num, !.arg = a]

Dispatched(r) ==
    CASE r.tool = "unknown" ->
            [r EXCEPT !.pc = "done",
                      !.resp = <<TextContent(<<Tok("Unknown tool: ", 0, r.name)>>)>>]
      [] r.tool = "execute_sql" ->
            IF r.hasQuery THEN [r EXCEPT !.pc = "connect"]
            ELSE Caught(r, "'query'")
      [] r.tool = "benchmark_query" ->
            IF ~r.hasQuery THEN Caught(r, "'query'")
            ELSE IF r.hasIter /\ ~r.iterNumber
            THEN Caught(r, "'>' not supported between instances of 'str' and 'int'")
            ELSE [r EXCEPT !.pc = "connect", !.phase = "warm",
                           !.iterations =
                               ClampIterations(IF r.hasIter THEN r.arg
                                               ELSE DefaultIterations)]
      [] OTHER -> [r EXCEPT !.pc = "connect"]

\* call_tool(name, arguments) is entered: the arguments are read and the
\* handler is chosen.
call_tool(i) ==
    /\ running = i
    /\ inv[i].pc = "pending"
    /\ \E name \in ToolNames, hq \in BOOLEAN, q \in Queries, mt \in BOOLEAN,
          tn \in BOOLEAN, hi \in BOOLEAN, num \in BOOLEAN, a \in IterArgs :
          \* only the arguments the named tool reads are varied; num: the
          \* iterations argument is a number (otherwise a string)
          /\ hq \/ q = QEmpty
          /\ (hi /\ num) \/ a = 0
          /\ hi \/ num
          /\ name \in {"execute_sql", "benchmark_query", "list_tables"}
                \/ (~hq /\ q = QEmpty)
          /\ name = "execute_sql" \/ ~mt
          /\ name = "get_table_info" \/ ~tn
          /\ name = "benchmark_query" \/ (~hi /\ a = 0)
          /\ inv' = [inv EXCEPT ![i] = Dispatched(Entered(@, name, hq, q, mt, tn, hi, num, a))]
    /\ UNCHANGED <<delivered, ready, running, open, nextConn, users, outbox>>

\* ---------------------------------------------------------------- driver
\* A provisioner that hands out one cached connection: a faulty variant of
\* get_connection.
get_connection_cached(n) == 1

\* db.get_connection(): pymysql.connect(...) builds a new connection on
\* every call; n is the next unused handle.
get_connection(n) == n

\* connection = db.get_connection(), before the try block.
connect(i) ==
    /\ running = i
    /\ inv[i].pc = "connect"
    /\ \/ \E lat \in Profiles :
            LET h == get_connection(nextConn) IN
            /\ inv' = [inv EXCEPT ![i] =
                          [@ EXCEPT !.pc = "cursor", !.connects = @ + 1,
                                    !.connection = h, !.lat = lat]]
            /\ open' = open \cup {h}
            /\ nextConn' = nextConn + 1
            /\ users' = users \cup {<<h, i>>}
       \/ /\ inv' = [inv EXCEPT ![i] =
                        Caught([@ EXCEPT !.connects = @ + 1,
                                         !.driverFailed = TRUE], "connect")]
          /\ UNCHANGED <<open, nextConn, users>>
    /\ Keep(i, "connect")
    /\ UNCHANGED <<delivered, outbox>>

\* cursor = connection.cursor()
cursor(i) ==
    /\ running = i
    /\ inv[i].pc = "cursor"
    /\ \/ inv' = [inv EXCEPT ![i].pc = "execute"]
       \/ inv' = [inv EXCEPT ![i] = Raise(@, "cursor", TRUE)]
    /\ users' = users \cup {<<inv[i].connection, i>>}
    /\ UNCHANGED <<delivered, ready, running, open, nextConn, outbox>>

\* A benchmark that times its warm-up run too: a faulty variant of RecordTime.
RecordTimeAlways(times, phase, t) == Append(times, t)

\* times.append(execution_time) stands in the loop of timed runs only; the
\* warm-up run before it records nothing.
RecordTime(times, phase, t) == IF phase = "timed" THEN Append(times, t) ELSE times

\* benchmark_query: a run (execute, and fetchall for a projection) has
\* ended; the loop goes on or ends.
Recorded(r) ==
    LET r2 == [r EXCEPT !.times = RecordTime(@, r.phase, Latency(r.lat, r.runs + 1)),
                        !.runs = IF r.phase = "timed" THEN @ + 1 ELSE @,
                        !.phase = "timed"]
    IN [r2 EXCEPT !.pc = IF r2.runs < TimedRuns(r2.iterations)
                         THEN "execute" ELSE "stats"]

AfterExecute(r) ==
    CASE r.tool = "execute_sql" ->
            [r EXCEPT !.elapsed = IF r.measure_time THEN Latency(r.lat, 1) ELSE 0,
                      !.pc = IF IsProjection(r.query) THEN "fetchall" ELSE "commit"]
      [] r.tool = "get_table_info" -> [r EXCEPT !.pc = "fetchall"]
      [] r.tool = "get_database_stats" -> [r EXCEPT !.pc = "fetchone"]
      [] OTHER ->
            IF IsProjection(r.query) THEN [r EXCEPT !.pc = "fetchall"]
            ELSE Recorded(r)

\* cursor.execute(...)
execute(i) ==
    /\ running = i
    /\ inv[i].pc = "execute"
    /\ \/ inv' = [inv EXCEPT ![i] = AfterExecute([@ EXCEPT !.executes = @ + 1])]
       \/ inv' = [inv EXCEPT ![i] = Raise([@ EXCEPT !.executes = @ + 1], "execute", TRUE)]
    /\ users' = users \cup {<<inv[i].connection, i>>}
    /\ Keep(i, "execute")
    /\ UNCHANGED <<delivered, open, nextConn, outbox>>

\* The head of execute_sql's report.
SqlReport(r, label, n) ==
    <<Tok("Query executed successfully.", 0, "")>>
    \o (IF r.measure_time
        THEN <<Tok("Execution time: ", Fmt2(r.elapsed, 1), "ms")>> ELSE <<>>)
    \o <<Tok(label, n, "")>>

\* What follows a fetchall() that returned n rows.
AfterFetchall(r, n, formats) ==
    CASE r.tool = "execute_sql" ->
            [r EXCEPT !.pc = "finally",
                      !.result_text =
                          SqlReport(r, "Rows returned: ", n)
                          \o (IF n > 0 THEN <<Tok("json", n, "")>>
                              ELSE <<Tok("No rows returned.", 0, "")>>)]
      [] r.tool = "get_table_info" ->
            IF n = 0
            THEN [r EXCEPT !.pc = "finally",
                           !.result_text = <<Tok("No tables found.", 0, "")>>]
            ELSE IF formats
            THEN [r EXCEPT !.pc = "finally",
                           !.result_text = <<Tok("Table Information:", 0, ""),
                                             Tok("Table: ", n, "")>>]
            ELSE Raise([r EXCEPT !.result_text = <<Tok("Table Information:", 0, "")>>],
                       "format", FALSE)
      [] OTHER -> Recorded(r)

\* cursor.fetchall()
fetchall(i) ==
    /\ running = i
    /\ inv[i].pc = "fetchall"
    /\ \/ \E n \in 0..MaxRows, formats \in BOOLEAN :
            /\ inv[i].tool = "get_table_info" \/ formats
            /\ inv[i].tool # "benchmark_query" \/ n = 0
            /\ inv' = [inv EXCEPT ![i] =
                          AfterFetchall([@ EXCEPT !.fetches = @ + 1], n, formats)]
       \/ inv' = [inv EXCEPT ![i] = Raise([@ EXCEPT !.fetches = @ + 1], "fetch", TRUE)]
    /\ users' = users \cup {<<inv[i].connection, i>>}
    /\ Keep(i, "fetch")
    /\ UNCHANGED <<delivered, open, nextConn, outbox>>

\* get_database_stats: cursor.fetchone() after each of its three statements,
\* the report after the last.
fetchone(i) ==
    /\ running = i
    /\ inv[i].pc = "fetchone"
    /\ \/ /\ inv[i].executes < StatsStatements
          /\ inv' = [inv EXCEPT ![i] = [@ EXCEPT !.fetches = @ + 1, !.pc = "execute"]]
       \/ /\ inv[i].executes >= StatsStatements
          /\ \/ inv' = [inv EXCEPT ![i] =
                           [@ EXCEPT !.fetches = @ + 1, !.pc = "finally",
                                     !.result_text = <<Tok("Database Statistics", 0, ""),
                                                       Tok("Table Statistics:", 0, "")>>]]
             \/ inv' = [inv EXCEPT ![i] =
                           Raise([@ EXCEPT !.fetches = @ + 1,
                                           !.result_text = <<Tok("Database Statistics", 0, "")>>],
                                 "format", FALSE)]
       \/ inv' = [inv EXCEPT ![i] = Raise([@ EXCEPT !.fetches = @ + 1], "fetch", TRUE)]
    /\ users' = users \cup {<<inv[i].connection, i>>}
    /\ Keep(i, "fetch")
    /\ UNCHANGED <<delivered, open, nextConn, outbox>>

\* execute_sql, the else branch: connection.commit(), then cursor.rowcount.
commit(i) ==
    /\ running = i
    /\ inv[i].pc = "commit"
    /\ \/ \E n \in 0..MaxRows :
            inv' = [inv EXCEPT ![i] =
                       [@ EXCEPT !.commits = @ + 1, !.pc = "finally",
                                 !.result_text = SqlReport(inv[i], "Affected rows: ", n)]]
       \/ inv' = [inv EXCEPT ![i] = Raise([@ EXCEPT !.commits = @ + 1], "commit", TRUE)]
    /\ users' = users \cup {<<inv[i].connection, i>>}
    /\ Keep(i, "commit")
    /\ UNCHANGED <<delivered, open, nextConn, outbox>>

\* benchmark_query's report.
BenchReport(r) ==
    << Tok("Query Benchmark Results", 0, ""),
       Tok("Iterations: ", r.iterations, ""),
       Tok("Average execution time: ", Fmt2(Sum(r.times), Len(r.times)), "ms"),
       Tok("Minimum execution time: ", Fmt2(MinOf(r.times), 1), "ms"),
       Tok("Maximum execution time: ", Fmt2(MaxOf(r.times), 1), "ms") >>
    \o [k \in 1..Len(r.times) |-> Tok("Individual times: ", Fmt2(r.times[k], 1), "ms")]

\* benchmark_query, after the loop: avg_time = sum(times) / len(times), min,
\* max and the report.
statistics(i) ==
    /\ running = i
    /\ inv[i].pc = "stats"
    /\ inv' = [inv EXCEPT ![i] =
                  IF Len(inv[i].times) = 0
                  THEN Raise(inv[i], "division by zero", FALSE)
                  ELSE [inv[i] EXCEPT !.pc = "finally",
                                      !.result_text = BenchReport(inv[i])]]
    /\ UNCHANGED <<delivered, ready, running, open, nextConn, users, outbox>>

\* A handler that closes only at the end of its happy path: a faulty variant of
\* ClosesOnExit.
ClosesOnSuccessOnly(raised) == ~raised

\* finally: connection.close() runs on every exit of the try block.
ClosesOnExit(raised) == TRUE

Answered(r) ==
    [r EXCEPT !.pc = "done",
              !.resp = IF r.raised THEN ErrorResponse(r.result_text, r.msg)
                       ELSE <<TextContent(r.result_text)>>]

\* The finally block, then the handler's return or call_tool's except clause.
\* close() releases the handle; it may itself raise.
close(i) ==
    /\ running = i
    /\ inv[i].pc = "finally"
    /\ IF ClosesOnExit(inv[i].raised)
       THEN /\ open' = open \ {inv[i].connection}
            /\ users' = users \cup {<<inv[i].connection, i>>}
            /\ \/ inv' = [inv EXCEPT ![i] = Answered([@ EXCEPT !.closes = @ + 1])]
               \/ inv' = [inv EXCEPT ![i] =
                             Answered([@ EXCEPT !.closes = @ + 1, !.raised = TRUE,
                                                !.driverFailed = TRUE,
                                                !.msg = "Already closed"])]
       ELSE /\ inv' = [inv EXCEPT ![i] = Answered(@)]
            /\ UNCHANGED <<open, users>>
    /\ UNCHANGED <<delivered, ready, running, nextConn, outbox>>

\* call_tool returns its list of content blocks to the transport.
Return(i) ==
    /\ running = i
    /\ inv[i].pc = "done"
    /\ outbox' = Append(outbox, i)
    /\ inv' = [inv EXCEPT ![i] = [NewFrame EXCEPT !.pc = "returned"]]
    /\ running' = 0
    /\ UNCHANGED <<delivered, ready, open, nextConn, users>>

Next ==
    \/ Deliver
    \/ \E i \in Invs :
          \/ Schedule(i)
          \/ call_tool(i)
          \/ connect(i)
          \/ cursor(i)
          \/ execute(i)
          \/ fetchall(i)
          \/ fetchone(i)
          \/ commit(i)
          \/ statistics(i)
          \/ close(i)
          \/ Return(i)

Spec == Init /\ [][Next]_vars

\* ================================================================ claims
Started(i) == inv[i].pc \notin {"new", "pending", "returned"}
Done(i) == inv[i].pc = "done"
HasTok(text, k) == \E j \in 1..Len(text) : text[j].k = k
TokVal(text, k) == text[CHOOSE j \in 1..Len(text) : text[j].k = k].v
IsIndividual(tok) == tok.k = "Individual times: "
\* What the caller asked for: the iterations argument, or its default.
Asked(i) == IF inv[i].hasIter THEN inv[i].arg ELSE DefaultIterations
\* The queries of Queries that begin, once trimmed and uppercased, with
\* SELECT, SHOW, DESCRIBE or EXPLAIN, listed by hand.
ProjectionQueries == { QSelectPadded, QShow, QDescribe, QExplain, QSelected }

\* C1: on every exit path of a handler (success, empty result, an exception
\* of cursor, execute, fetch, commit or formatting, a failed connect) no
\* connection is open once the handler has ended, and none is open whenever
\* the dispatcher is idle.
C1_NoConnectionLeak ==
    /\ \A i \in Invs : Done(i) => open = {}
    /\ running = 0 => open = {}

C1_Witness ==
    \E i \in Invs :
        /\ Done(i) /\ inv[i].raised /\ inv[i].msg = "fetch"
        /\ inv[i].connects = 1 /\ inv[i].connection # 0
        /\ open = {}

\* C2: call_tool always answers with exactly one text block; when an
\* exception was raised the text is "Error: " and the exception's message,
\* nothing of the partly rendered report comes with it, and after the
\* exception the invocation calls the driver for no further statement.
C2_State ==
    \A i \in Invs : Done(i) =>
        /\ Len(inv[i].resp) = 1
        /\ inv[i].resp[1].type = "text"
        /\ inv[i].raised => inv[i].resp[1].text = <<Tok("Error: ", 0, inv[i].msg)>>
        /\ ~inv[i].raised => ~HasTok(inv[i].resp[1].text, "Error: ")

C2_Step ==
    \A i \in Invs :
        inv[i].raised =>
            \/ inv'[i].pc = "returned"
            \/ /\ inv'[i].executes = inv[i].executes
               /\ inv'[i].fetches = inv[i].fetches
               /\ inv'[i].commits = inv[i].commits
               /\ inv'[i].connects = inv[i].connects

C2_OneTextBlock == [](C2_State) /\ [][C2_Step]_vars

C2_Witness ==
    \E i \in Invs :
        /\ Done(i) /\ inv[i].raised /\ inv[i].msg = "format"
        /\ inv[i].result_text # <<>>
        /\ inv[i].resp = <<TextContent(<<Tok("Error: ", 0, "format")>>)>>

\* C3: an invocation naming no tool of the catalog is answered
\* "Unknown tool: <name>" and does nothing to the database: no connection,
\* no statement.
C3_UnknownTool ==
    \A i \in Invs :
        (Started(i) /\ inv[i].name \notin Known) =>
            /\ Done(i)
            /\ inv[i].resp = <<TextContent(<<Tok("Unknown tool: ", 0, inv[i].name)>>)>>
            /\ inv[i].connects = 0 /\ inv[i].executes = 0 /\ inv[i].fetches = 0
            /\ inv[i].commits = 0 /\ inv[i].closes = 0 /\ inv[i].connection = 0
            /\ \A u \in users : u[2] # i

C3_Witness ==
    \E i \in Invs :
        /\ Done(i) /\ inv[i].name = "list_tables" /\ inv[i].hasQuery
        /\ inv[i].query = QUpdate

\* C4: in execute_sql the classifier alone decides the report.  A query that
\* starts, trimmed and uppercased, with SELECT, SHOW, DESCRIBE or EXPLAIN is
\* never committed and, when it succeeds, is fetched once and reported as
\* "Rows returned: n" (with "No rows returned." exactly when n = 0); any
\* other query is never fetched and, when it succeeds, is committed once and
\* reported as "Affected rows: n".  Never both.
C4_ClassifierDecides ==
    \A i \in Invs :
        (Started(i) /\ inv[i].name = "execute_sql" /\ inv[i].hasQuery) =>
            LET text == inv[i].result_text
                ok == Done(i) /\ ~inv[i].raised
            IN  /\ ~(HasTok(text, "Rows returned: ") /\ HasTok(text, "Affected rows: "))
                /\ inv[i].query \in ProjectionQueries =>
                    /\ inv[i].commits = 0
                    /\ ~HasTok(text, "Affected rows: ")
                    /\ ok => /\ inv[i].fetches = 1
                             /\ inv[i].resp = <<TextContent(text)>>
                             /\ HasTok(text, "Rows returned: ")
                             /\ HasTok(text, "No rows returned.")
                                    <=> TokVal(text, "Rows returned: ") = 0
                /\ inv[i].query \notin ProjectionQueries =>
                    /\ inv[i].fetches = 0
                    /\ ~HasTok(text, "Rows returned: ")
                    /\ ok => /\ inv[i].commits = 1
                             /\ inv[i].resp = <<TextContent(text)>>
                             /\ HasTok(text, "Affected rows: ")

C4_Witness ==
    \E i \in Invs :
        /\ Done(i) /\ ~inv[i].raised /\ inv[i].name = "execute_sql"
        /\ inv[i].query = QSelectPadded
        /\ TokVal(inv[i].result_text, "Rows returned: ") = 0

\* C5: benchmark_query asked for more than 50 iterations runs the query 51
\* times (the warm-up and 50 timed runs), records 50 samples and reports
\* "Iterations: 50"; it never runs more and does not reject the call.
C5_CapAtFifty ==
    \A i \in Invs :
        (Started(i) /\ inv[i].name = "benchmark_query" /\ inv[i].hasQuery
            /\ inv[i].hasIter /\ inv[i].iterNumber /\ inv[i].arg > Cap) =>
            /\ inv[i].executes <= Cap + 1
            /\ Len(inv[i].times) <= Cap
            /\ (inv[i].pc \in {"finally", "done"} /\ ~inv[i].driverFailed) =>
                /\ ~inv[i].raised
                /\ inv[i].executes = Cap + 1
                /\ Len(inv[i].times) = Cap
                /\ HasTok(inv[i].result_text, "Iterations: ")
                /\ TokVal(inv[i].result_text, "Iterations: ") = Cap
                /\ Done(i) => inv[i].resp = <<TextContent(inv[i].result_text)>>

C5_Witness ==
    \E i \in Invs :
        /\ Done(i) /\ ~inv[i].raised /\ inv[i].name = "benchmark_query"
        /\ inv[i].arg > Cap + 1 /\ inv[i].executes = Cap + 1

\* C6: benchmark_query clamps iterations to [1, 50]: for every integer
\* argument, 0 and negatives included, it runs min(50, max(1, iterations))
\* timed repetitions and returns a report, not an error.
C6_ClampsToAdvertisedRange ==
    \A i \in Invs :
        (Done(i) /\ inv[i].name = "benchmark_query" /\ inv[i].hasQuery
            /\ inv[i].hasIter /\ inv[i].iterNumber /\ ~inv[i].driverFailed) =>
            /\ ~inv[i].raised
            /\ Len(inv[i].times) = Min2(Cap, Max2(1, inv[i].arg))

\* C7: benchmark_query with 1 <= n <= 50 iterations, every call of the
\* driver succeeding, reports n per-iteration entries, the k-th being the
\* k-th timed run's, none for the warm-up, and minimum <= average <= maximum.
C7_Samples ==
    \A i \in Invs :
        (Done(i) /\ inv[i].name = "benchmark_query" /\ inv[i].hasQuery
            /\ inv[i].iterNumber /\ ~inv[i].driverFailed
            /\ Asked(i) >= 1 /\ Asked(i) <= Cap) =>
            LET text == inv[i].resp[1].text
                entries == SelectSeq(text, IsIndividual)
            IN  /\ ~inv[i].raised
                /\ Len(entries) = Asked(i)
                /\ \A k \in 1..Len(entries) :
                       entries[k].v = Fmt2(Latency(inv[i].lat, k), 1)
                /\ inv[i].executes = Asked(i) + 1
                /\ TokVal(text, "Minimum execution time: ")
                       <= TokVal(text, "Average execution time: ")
                /\ TokVal(text, "Average execution time: ")
                       <= TokVal(text, "Maximum execution time: ")

C7_Witness ==
    \E i \in Invs :
        /\ Done(i) /\ ~inv[i].raised /\ inv[i].name = "benchmark_query"
        /\ inv[i].hasIter /\ inv[i].arg = 3 /\ inv[i].lat = <<3, 18, 7>>
        /\ TokVal(inv[i].result_text, "Minimum execution time: ")
               < TokVal(inv[i].result_text, "Maximum execution time: ")

\* Reading the arguments raises before get_connection is reached.
ArgumentsRaise(i) ==
    \/ inv[i].name \in {"execute_sql", "benchmark_query"} /\ ~inv[i].hasQuery
    \/ inv[i].name = "benchmark_query" /\ inv[i].hasIter /\ ~inv[i].iterNumber

Isolated == \A u \in users : \A w \in users : u[1] = w[1] => u[2] = w[2]

\* C8, as stated: every invocation of a recognised tool calls get_connection
\* exactly once, whatever its arguments, and no connection is used by two
\* invocations.
C8_ExactlyOneAlways ==
    /\ \A i \in Invs : (Done(i) /\ inv[i].name \in Known) => inv[i].connects = 1
    /\ Isolated

\* C8, amended: every invocation of a recognised tool calls get_connection at
\* most once, and exactly once unless reading its arguments raised first (no
\* "query" for execute_sql or benchmark_query, an iterations value that cannot
\* be compared with 50), in which case it calls it not at all; and no
\* connection is used by two invocations.
C8_OneUnlessArgumentsRaise ==
    /\ \A i \in Invs :
          (Started(i) /\ inv[i].name \in Known) =>
              /\ inv[i].connects <= 1
              /\ ArgumentsRaise(i) => inv[i].connects = 0
              /\ (Done(i) /\ ~ArgumentsRaise(i)) => inv[i].connects = 1
    /\ Isolated

C8_Witness ==
    /\ inv[2].pc = "done" /\ inv[2].connection = 2 /\ inv[2].name \in Known
    /\ <<1, 1>> \in users /\ <<2, 2>> \in users

\* C9: one invocation at a time: at most one invocation is between its entry
\* into call_tool and its response, while it is no other invocation calls the
\* driver, the responses leave in delivery order, and the dispatcher is idle
\* exactly when no invocation is under way.
C9_State ==
    /\ Cardinality({ i \in Invs : Started(i) }) <= 1
    /\ running = 0 => \A i \in Invs : ~Started(i)
    /\ \A i \in Invs : Started(i) => running = i
    /\ \A k \in 1..Len(outbox) : outbox[k] = k

C9_Step ==
    \A i \in Invs : \A j \in Invs \ {i} :
        (Started(i) /\ inv'[i].pc # "returned") =>
            /\ inv'[j].connects = inv[j].connects
            /\ inv'[j].executes = inv[j].executes
            /\ inv'[j].fetches = inv[j].fetches
            /\ inv'[j].commits = inv[j].commits
            /\ inv'[j].closes = inv[j].closes
            /\ ~Started(j)'

C9_OneAtATime == [](C9_State) /\ [][C9_Step]_vars

C9_Witness ==
    /\ outbox = <<1, 2>> /\ running = 0
    /\ <<1, 1>> \in users /\ <<2, 2>> \in users

====
